---- MODULE Spec2Model ----
(***************************************************************************)
(* Model of MetPy's mapping package:                                      *)
(*   metpy/mapping/interpolation.py  (natural_neighbor, inverse_distance)  *)
(*   metpy/mapping/triangles.py      (geometry helpers)                    *)
(*   metpy/mapping/mpmap.py          (MetpyMap and its parameter dict)     *)
(* Four specifications share the variables: SpecIDW (inverse_distance),    *)
(* SpecNN (natural_neighbor), SpecFLB (find_local_boundary called on its   *)
(* own) and SpecMap (MetpyMap); each leaves the others' variables idle.    *)
(* Real numbers are modelled as exact rationals <<n, d>> (d > 0, lowest    *)
(* terms); the IEEE not-a-number is <<0, 0>>.  Observation and grid        *)
(* coordinates are integers, so squared distances, circumcenters and       *)
(* polygon areas are exact rationals.                                      *)
(***************************************************************************)
EXTENDS Integers, Sequences, FiniteSets, TLC

(* ------------------------------ bounds --------------------------------- *)
MaxObs == 4
MaxDim == 2
MaxVal == 1
MaxArgs == 2

(* ---------------------------- state ------------------------------------ *)
VARIABLES
    call,                    \* the function being called
    xp, yp, variable,        \* observations
    grid_x, grid_y,          \* meshgrid, grid_x[row][col]
    r, gamma, kappa, min_neighbors, kind,
    pc,                      \* position in the running call
    grid_points,             \* row-major flattening of the grid
    img,                     \* flat output array under construction
    idx,                     \* number of cells already evaluated
    written,                 \* flat indices g for which img[g] = ... was executed
    tri,                     \* the Delaunay triangulation [points, simplices]
    members,                 \* members[g]: the NeighborSet of grid point g
    walks,                   \* the boundary walk of every cell evaluated so far
    triangle_info,           \* triangle_info[i]: circumcenter and radius of simplex i
    flb_triangles, flb_edges,  \* find_local_boundary: its argument and its edge list
    options,                 \* the dict passed to MetpyMap(options)
    parameters, map_values,  \* the arguments of add / remove / update
    params, optional_params, required_params,   \* the fields of the MetpyMap
    warned,                  \* the warnings issued so far
    result,                  \* the returned array [shape, data] or NoResult
    err                      \* the exception that left the call, or "none"

vars == <<call, xp, yp, variable, grid_x, grid_y, r, gamma, kappa, min_neighbors,
          kind, pc, grid_points, img, idx, written, tri, members, walks,
          triangle_info, flb_triangles, flb_edges, options, parameters, map_values,
          params,
          optional_params, required_params, warned, result, err>>

\* the variables of find_local_boundary called on its own, and of MetpyMap
flbvars == <<flb_triangles, flb_edges>>
mapvars == <<options, parameters, map_values, params, optional_params, required_params,
             warned>>

\* no find_local_boundary call and no MetpyMap in this run
NoBoundaryCall == flb_triangles = <<>> /\ flb_edges = <<>>
NoMap ==
    /\ options = <<>>
    /\ parameters = <<>>
    /\ map_values = <<>>
    /\ params = <<>>
    /\ optional_params = <<>>
    /\ required_params = <<>>
    /\ warned = <<>>

(* --------------------------- rationals --------------------------------- *)
Abs(x) == IF x < 0 THEN -x ELSE x

RECURSIVE Gcd(_, _)
Gcd(a, b) == IF b = 0 THEN a ELSE Gcd(b, a % b)

NaN == <<0, 0>>

Rat(n, d) ==
    IF d = 0 THEN (IF n = 0 THEN NaN ELSE <<(IF n > 0 THEN 1 ELSE -1), 0>>)
    ELSE LET g == Gcd(Abs(n), Abs(d))
             s == IF d < 0 THEN -1 ELSE 1
         IN  <<(s * n) \div g, (s * d) \div g>>

RInt(n) == <<n, 1>>
IsNaN(a) == a = NaN
IsFinite(a) == a[2] # 0

RAdd(a, b) ==
    IF ~IsFinite(a) \/ ~IsFinite(b) THEN NaN
    ELSE LET g == Gcd(a[2], b[2])
         IN  Rat(a[1] * (b[2] \div g) + b[1] * (a[2] \div g), (a[2] \div g) * b[2])

RNeg(a) == IF IsFinite(a) THEN <<-a[1], a[2]>> ELSE NaN
RSub(a, b) == RAdd(a, RNeg(b))

RMul(a, b) ==
    IF ~IsFinite(a) \/ ~IsFinite(b) THEN NaN
    ELSE LET g1 == Gcd(Abs(a[1]), b[2])
             g2 == Gcd(Abs(b[1]), a[2])
         IN  Rat((a[1] \div g1) * (b[1] \div g2), (a[2] \div g2) * (b[2] \div g1))

\* a / b with numpy's conventions: 0/0 is NaN, x/0 is a signed infinity
RDiv(a, b) ==
    IF ~IsFinite(a) \/ ~IsFinite(b) THEN NaN
    ELSE IF b[1] = 0 THEN Rat(a[1], 0)
    ELSE RMul(a, Rat(b[2], b[1]))

RLess(a, b) == a[1] * b[2] < b[1] * a[2]
RLeq(a, b) == a[1] * b[2] <= b[1] * a[2]

RECURSIVE RSum(_)
RSum(s) == IF s = <<>> THEN RInt(0) ELSE RAdd(Head(s), RSum(Tail(s)))

(* ----------------------------- options --------------------------------- *)
None == <<>>
Some(x) == <<x>>
Val(o) == o[1]

NoResult == [shape |-> <<>>, data |-> <<>>]
NoTri == [points |-> <<>>, simplices |-> <<>>]


(* ------------------- sequences and planar geometry --------------------- *)
Range(s) == {s[i] : i \in 1..Len(s)}

\* the first index at which x occurs in s, 0 when it does not
RECURSIVE IndexOf(_, _, _)
IndexOf(s, x, i) ==
    IF i > Len(s) THEN 0 ELSE IF s[i] = x THEN i ELSE IndexOf(s, x, i + 1)

\* s without its first occurrence of x (list.remove)
RemoveFirst(s, x) ==
    LET k == IndexOf(s, x, 1)
    IN  [i \in 1..(Len(s) - 1) |-> IF i < k THEN s[i] ELSE s[i + 1]]

\* twice the signed area of the integer triangle (a, b, c); > 0 when
\* a, b, c turn counter-clockwise
Orient(a, b, c) ==
    (b[1] - a[1]) * (c[2] - a[2]) - (b[2] - a[2]) * (c[1] - a[1])

\* a point with rational coordinates
RPoint(p) == <<RInt(p[1]), RInt(p[2])>>

RCross(o, a, b) ==
    RSub(RMul(RSub(a[1], o[1]), RSub(b[2], o[2])),
         RMul(RSub(a[2], o[2]), RSub(b[1], o[1])))

RDist2(a, b) ==
    RAdd(RMul(RSub(a[1], b[1]), RSub(a[1], b[1])),
         RMul(RSub(a[2], b[2]), RSub(a[2], b[2])))

(* -------------------------- scipy.spatial ------------------------------ *)
\* p lies strictly inside the circumcircle of the counter-clockwise
\* integer triangle (a, b, c)
InCircle(a, b, c, p) ==
    LET ax == a[1] - p[1]
        ay == a[2] - p[2]
        bx == b[1] - p[1]
        by == b[2] - p[2]
        cx == c[1] - p[1]
        cy == c[2] - p[2]
    IN  (ax * ax + ay * ay) * (bx * cy - cx * by)
          - (bx * bx + by * by) * (ax * cy - cx * ay)
          + (cx * cx + cy * cy) * (ax * by - bx * ay) > 0

\* the counter-clockwise index triples of pts whose circumcircle holds no
\* point of pts in its interior, each written from its smallest index
EmptyCircleTriples(pts) ==
    {t \in (1..Len(pts)) \X (1..Len(pts)) \X (1..Len(pts)) :
        /\ t[1] < t[2] /\ t[1] < t[3] /\ t[2] # t[3]
        /\ Orient(pts[t[1]], pts[t[2]], pts[t[3]]) > 0
        /\ \A q \in 1..Len(pts) :
               ~InCircle(pts[t[1]], pts[t[2]], pts[t[3]], pts[q])}

\* segments ab and cd cross at a point interior to both
ProperCross(a, b, c, d) ==
    /\ Orient(a, b, c) * Orient(a, b, d) < 0
    /\ Orient(c, d, a) * Orient(c, d, b) < 0

TriEdges(t) == {<<t[1], t[2]>>, <<t[2], t[3]>>, <<t[3], t[1]>>}

Overlap(pts, s, t) ==
    \E e \in TriEdges(s), f \in TriEdges(t) :
        ProperCross(pts[e[1]], pts[e[2]], pts[f[1]], pts[f[2]])

\* the Delaunay triangulations of pts: the maximal sets of empty-circle
\* triangles with disjoint interiors (more than one when four or more
\* points are cocircular)
Triangulations(pts) ==
    LET cand == EmptyCircleTriples(pts)
        ok(T) == \A s, t \in T : s = t \/ ~Overlap(pts, s, t)
    IN  {T \in SUBSET cand :
            /\ ok(T)
            /\ \A u \in cand \ T : ~ok(T \cup {u})}

TripleLess(s, t) ==
    \/ s[1] < t[1]
    \/ s[1] = t[1] /\ s[2] < t[2]
    \/ s[1] = t[1] /\ s[2] = t[2] /\ s[3] < t[3]

RECURSIVE SortTriples(_)
SortTriples(T) ==
    IF T = {} THEN <<>>
    ELSE LET m == CHOOSE t \in T : \A u \in T : u = t \/ TripleLess(t, u)
         IN  <<m>> \o SortTriples(T \ {m})

\* triple t written from its (k+1)-th vertex, orientation kept
Rotate(t, k) == [i \in 1..3 |-> t[((i - 1 + k) % 3) + 1]]

\* Delaunay(points) fails on fewer than three points and on collinear input
DelaunayRaises(pts) ==
    \/ Len(pts) < 3
    \/ \A i, j, k \in 1..Len(pts) : Orient(pts[i], pts[j], pts[k]) = 0

\* tri.find_simplex(p) >= 0: p lies in some simplex, boundary included
find_simplex_found(t, p) ==
    \E k \in 1..Len(t.simplices) :
        LET a == t.points[t.simplices[k][1]]
            b == t.points[t.simplices[k][2]]
            c == t.points[t.simplices[k][3]]
        IN  Orient(a, b, p) >= 0 /\ Orient(b, c, p) >= 0 /\ Orient(c, a, p) >= 0

\* the lowest of the leftmost points
HullStart(S) ==
    CHOOSE p \in S : \A q \in S :
        RLess(p[1], q[1]) \/ (p[1] = q[1] /\ RLeq(p[2], q[2]))

\* the hull vertex that follows p counter-clockwise
HullNext(S, p) ==
    CHOOSE q \in S \ {p} :
        \A s \in S \ {p, q} :
            LET c == RCross(p, q, s)
            IN  \/ c[1] > 0
                \/ c[1] = 0 /\ RLeq(RDist2(p, s), RDist2(p, q))

RECURSIVE HullWalk(_, _, _)
HullWalk(S, start, p) ==
    LET q == HullNext(S, p)
    IN  IF q = start THEN <<p>> ELSE <<p>> \o HullWalk(S, start, q)

\* ConvexHull(polygon) fails unless three of the points span the plane
ConvexHullRaises(polygon) ==
    \A a, b, c \in Range(polygon) : RCross(a, b, c)[1] = 0

\* [polygon[i] for i in ConvexHull(polygon).vertices]: the hull's vertices
\* in counter-clockwise order
ConvexHullPts(polygon) ==
    LET S == Range(polygon)
    IN  HullWalk(S, HullStart(S), HullStart(S))

(* ------------------- metpy/mapping/polygons.py ------------------------- *)
\* shoelace area of an ordered polygon
area(pts) ==
    LET n == Len(pts)
        a == RSum([i \in 1..n |->
                 RSub(RMul(pts[i][1], pts[(i % n) + 1][2]),
                      RMul(pts[(i % n) + 1][1], pts[i][2]))])
    IN  Rat(Abs(a[1]), 2 * a[2])

\* chain the edges head to tail, starting from the first one, for as long
\* as a next edge is found
RECURSIVE order_edges_from(_, _)
order_edges_from(ordered, edges) ==
    LET match == ordered[Len(ordered)][2]
        nxt == SelectSeq(edges, LAMBDA e : e[1] = match)
    IN  IF nxt = <<>> THEN ordered
        ELSE order_edges_from(Append(ordered, nxt[1]), RemoveFirst(edges, nxt[1]))

order_edges(edges) == order_edges_from(<<edges[1]>>, Tail(edges))

(* --------------------- metpy/mapping/points.py ------------------------- *)
Rows(g) == Len(g)
Cols(g) == Len(g[1])

\* row-major list of (x, y) pairs of a meshgrid
generate_grid_coords(gx, gy) ==
    [g \in 1..(Rows(gx) * Cols(gx)) |->
        LET row == ((g - 1) \div Cols(gx)) + 1
            col == ((g - 1) % Cols(gx)) + 1
        IN  <<gx[row][col], gy[row][col]>>]

(* -------------------- metpy/mapping/triangles.py ----------------------- *)
dist_2(x0, y0, x1, y1) ==
    LET d0 == x1 - x0
        d1 == y1 - y0
    IN  d0 * d0 + d1 * d1

\* circumcenter of three integer points: [raised, cc]
circumcenter(pt0, pt1, pt2) ==
    LET a_x == pt0[1]
        a_y == pt0[2]
        b_x == pt1[1]
        b_y == pt1[2]
        c_x == pt2[1]
        c_y == pt2[2]
        bc_y_diff == b_y - c_y
        ca_y_diff == c_y - a_y
        ab_y_diff == a_y - b_y
        cb_x_diff == c_x - b_x
        ac_x_diff == a_x - c_x
        ba_x_diff == b_x - a_x
        d_div == a_x * bc_y_diff + b_x * ca_y_diff + c_x * ab_y_diff
        a_mag == a_x * a_x + a_y * a_y
        b_mag == b_x * b_x + b_y * b_y
        c_mag == c_x * c_x + c_y * c_y
    IN  IF d_div = 0
        THEN [raised |-> TRUE, cc |-> <<NaN, NaN>>]
        ELSE [raised |-> FALSE,
              cc |-> <<Rat(a_mag * bc_y_diff + b_mag * ca_y_diff + c_mag * ab_y_diff,
                           2 * d_div),
                       Rat(a_mag * cb_x_diff + b_mag * ac_x_diff + c_mag * ba_x_diff,
                           2 * d_div)>>]

\* the circumradius a*b*c / (4*sqrt(s(s-a)(s-b)(s-c))), kept as its square:
\* s(s-a)(s-b)(s-c) is the squared area, a quarter of the squared
\* determinant of the three points
circumcircle_radius(pt0, pt1, pt2) ==
    LET a2 == dist_2(pt0[1], pt0[2], pt1[1], pt1[2])
        b2 == dist_2(pt1[1], pt1[2], pt2[1], pt2[2])
        c2 == dist_2(pt2[1], pt2[2], pt0[1], pt0[2])
        det == Orient(pt0, pt1, pt2)
    IN  Rat(a2 * b2 * c2, 4 * det * det)

\* the triangle's cached circumcenter and (squared) radius
TriangleInfo(t, i) ==
    LET ps == [k \in 1..3 |-> t.points[t.simplices[i][k]]]
    IN  [cc |-> circumcenter(ps[1], ps[2], ps[3]).cc,
         r  |-> circumcircle_radius(ps[1], ps[2], ps[3])]

\* find_natural_neighbors without the in_triangulation test
find_natural_neighbors_unchecked(t, gpts) ==
    [g \in 1..Len(gpts) |->
        SelectSeq([i \in 1..Len(t.simplices) |-> i],
                  LAMBDA i :
                      RLeq(RDist2(RPoint(gpts[g]), TriangleInfo(t, i).cc),
                           TriangleInfo(t, i).r))]

\* find_natural_neighbors with the circles taken without their boundary
find_natural_neighbors_open(t, gpts) ==
    [g \in 1..Len(gpts) |->
        SelectSeq([i \in 1..Len(t.simplices) |-> i],
                  LAMBDA i :
                      /\ RLess(RDist2(RPoint(gpts[g]), TriangleInfo(t, i).cc),
                               TriangleInfo(t, i).r)
                      /\ find_simplex_found(t, gpts[g]))]

\* members[g]: the simplices whose circumcircle holds grid point g, in
\* simplex order, for the grid points inside the triangulation
find_natural_neighbors(t, gpts) ==
    [g \in 1..Len(gpts) |->
        SelectSeq([i \in 1..Len(t.simplices) |-> i],
                  LAMBDA i :
                      /\ RLeq(RDist2(RPoint(gpts[g]), TriangleInfo(t, i).cc),
                              TriangleInfo(t, i).r)
                      /\ find_simplex_found(t, gpts[g]))]

\* AddEdge without the test for the reversed edge
AddEdge_directed(edges, pt1, pt2) ==
    IF IndexOf(edges, <<pt1, pt2>>, 1) > 0 THEN RemoveFirst(edges, <<pt1, pt2>>)
    ELSE Append(edges, <<pt1, pt2>>)

\* one edge of find_local_boundary's inner loop
AddEdge(edges, pt1, pt2) ==
    IF IndexOf(edges, <<pt1, pt2>>, 1) > 0 THEN RemoveFirst(edges, <<pt1, pt2>>)
    ELSE IF IndexOf(edges, <<pt2, pt1>>, 1) > 0 THEN RemoveFirst(edges, <<pt2, pt1>>)
    ELSE Append(edges, <<pt1, pt2>>)

RECURSIVE find_local_boundary_from(_, _, _, _)
find_local_boundary_from(t, triangles, k, edges) ==
    IF k > Len(triangles) THEN edges
    ELSE LET sx == t.simplices[triangles[k]]
             e1 == AddEdge(edges, sx[1], sx[2])
             e2 == AddEdge(e1, sx[2], sx[3])
             e3 == AddEdge(e2, sx[3], sx[1])
         IN  find_local_boundary_from(t, triangles, k + 1, e3)

find_local_boundary(t, triangles) ==
    find_local_boundary_from(t, triangles, 1, <<>>)

(* ----------------------- metpy/mapping/mpmap.py ------------------------ *)
\* Python strings are sequences of one-character strings; a dict is a
\* function from its keys to its values
EmptyDict == <<>>

DictSet(d, key, val) ==
    [k \in (DOMAIN d) \cup {key} |-> IF k = key THEN val ELSE d[k]]

DictPop(d, key) == [k \in (DOMAIN d) \ {key} |-> d[k]]

\* sub in s
Contains(s, sub) ==
    \E i \in 1..(Len(s) - Len(sub) + 1) : SubSeq(s, i, i + Len(sub) - 1) = sub

\* s.split(ch)[-1]: what follows the last ch, the whole of s without one
SplitLast(s, ch) ==
    LET at == {i \in 1..Len(s) : s[i] = ch}
    IN  IF at = {} THEN s
        ELSE LET last == CHOOSE i \in at : \A j \in at : j <= i
             IN  SubSeq(s, last + 1, Len(s))

Http == <<"h", "t", "t", "p">>
Web == <<"w", "e", "b">>

optional_params_init ==
    <<"title", "process_area", "map_params", "datetime", "projection_options">>
required_params_init == <<"data_file", "data_type">>

\* key in self.optional_params or key in self.required_params
Recognised(opt, req, key) == key \in Range(opt) \/ key \in Range(req)

\* MetpyMap.__init__(self, options): the exception that leaves it or
\* "none", the caller's dict as the constructor leaves it, the fields of
\* the new object and the warnings issued.  The entries copied before an
\* unrecognised key is met are lost with the object.
MetpyMap_init(opts) ==
    LET failed(e, o, w) ==
            [raised |-> e, options |-> o, params |-> EmptyDict,
             optional_params |-> <<>>, required_params |-> <<>>, warned |-> w]
    IN  IF "data_location" \notin DOMAIN opts
        THEN failed("ValueError", opts, <<>>)
        ELSE
        LET location == opts["data_location"]
            data_type == SplitLast(location, ".")
            inferred == "data_type" \notin DOMAIN opts
            o1 == IF ~inferred THEN opts
                  ELSE IF Contains(location, Http)
                  THEN DictSet(opts, "data_type", Web)
                  ELSE DictSet(opts, "data_type", data_type)
            w1 == IF inferred
                  THEN <<[text |-> "data_type not specified, will assume",
                          data_type |-> data_type]>>
                  ELSE <<>>
        IN  IF inferred /\ Contains(location, Http)
            THEN \* line 40: message was never assigned
                 failed("UnboundLocalError", o1, <<>>)
            ELSE IF \E key \in DOMAIN o1 :
                        ~Recognised(optional_params_init, required_params_init, key)
            THEN failed("ValueError", o1, w1)
            ELSE [raised |-> "none", options |-> o1, params |-> o1,
                  optional_params |-> optional_params_init,
                  required_params |-> required_params_init, warned |-> w1]

\* MetpyMap.add from the i-th pair on: [raised, params]
RECURSIVE MetpyMap_add(_, _, _, _, _, _)
MetpyMap_add(p, opt, req, keys, vals, i) ==
    IF i > Len(keys) \/ i > Len(vals) THEN [raised |-> "none", params |-> p]
    ELSE IF Recognised(opt, req, keys[i])
    THEN MetpyMap_add(DictSet(p, keys[i], vals[i]), opt, req, keys, vals, i + 1)
    ELSE [raised |-> "ValueError", params |-> p]

\* MetpyMap.remove from the i-th key on: [raised, params, warned]
RECURSIVE MetpyMap_remove(_, _, _, _, _)
MetpyMap_remove(p, req, keys, w, i) ==
    IF i > Len(keys) THEN [raised |-> "none", params |-> p, warned |-> w]
    ELSE IF keys[i] \in DOMAIN p
    THEN IF keys[i] \notin Range(req)
         THEN MetpyMap_remove(DictPop(p, keys[i]), req, keys, w, i + 1)
         ELSE [raised |-> "ValueError", params |-> p, warned |-> w]
    ELSE MetpyMap_remove(p, req, keys,
             Append(w, [text |-> "was not found in parameters list.",
                        key |-> keys[i]]), i + 1)

\* MetpyMap.update from the i-th pair on: [raised, params, warned]
RECURSIVE MetpyMap_update(_, _, _, _, _)
MetpyMap_update(p, keys, vals, w, i) ==
    IF i > Len(keys) \/ i > Len(vals)
    THEN [raised |-> "none", params |-> p, warned |-> w]
    ELSE IF keys[i] \in DOMAIN p
    THEN MetpyMap_update(DictSet(p, keys[i], vals[i]), keys, vals, w, i + 1)
    ELSE MetpyMap_update(p, keys, vals,
             Append(w, [text |-> "was not found in parameters list.",
                        key |-> keys[i]]), i + 1)

(* ------------------ metpy/mapping/interpolation.py --------------------- *)
\* cKDTree(zip(xp, yp)).query_ball_point(p, r): the indices of the
\* observations within distance r of p, boundary included
query_ball_point(p, rr) ==
    SelectSeq([i \in 1..Len(xp) |-> i],
              LAMBDA i : rr >= 0 /\ dist_2(p[1], p[2], xp[i], yp[i]) <= rr * rr)

\* round(1000 * exp(-k/16)) for k = 0..15
ExpSixteenths ==
    <<1000, 939, 882, 829, 779, 732, 687, 646, 607, 570, 535, 503, 472, 444, 417, 392>>

RECURSIVE ExpTab(_)
ExpTab(k) ==
    IF k < 16 THEN ExpSixteenths[k + 1]
    ELSE (ExpTab(k - 16) * 368 + 500) \div 1000

\* np.exp(-q) for a rational q >= 0, to three decimals
ExpNeg(q) == Rat(ExpTab((16 * q[1]) \div q[2]), 1000)

barnes_weights(dist, k, g) ==
    [i \in 1..Len(dist) |-> ExpNeg(Rat(dist[i], k * g))]

\* cressman_weights with the radius left unsquared
cressman_weights_unsquared(dist, rr) ==
    [i \in 1..Len(dist) |-> Rat(rr - dist[i], rr + dist[i])]

cressman_weights(dist, rr) ==
    [i \in 1..Len(dist) |-> Rat(rr * rr - dist[i], rr * rr + dist[i])]

\* IDWCell with 'cressman' as the fallback for an unknown kind
IDWCell_fallback(g) ==
    LET matches == query_ball_point(grid_points[g], r)
        n       == Len(matches)
        values  == [i \in 1..n |-> RInt(variable[matches[i]])]
        dist    == [i \in 1..n |->
                       dist_2(grid_points[g][1], grid_points[g][2],
                              xp[matches[i]], yp[matches[i]])]
    IN  IF n < min_neighbors
        THEN [raised |-> FALSE, assigned |-> FALSE, val |-> NaN]
        ELSE IF kind # "barnes"
        THEN LET weights == cressman_weights(dist, r)
                 total_weights == RSum(weights)
             IN  [raised |-> FALSE, assigned |-> TRUE,
                  val |-> RSum([i \in 1..n |->
                              RMul(values[i], RDiv(weights[i], total_weights))])]
        ELSE IF kind = "barnes"
        THEN IF kappa = None \/ gamma = None
             THEN [raised |-> TRUE, assigned |-> FALSE, val |-> NaN]
             ELSE LET weights  == barnes_weights(dist, Val(kappa), 1)
                      weights_ == barnes_weights(dist, Val(kappa), Val(gamma))
                      total_weights  == RSum(weights)
                      total_weights_ == RSum(weights_)
                      g0 == RSum([i \in 1..n |->
                                RMul(values[i], RDiv(weights[i], total_weights))])
                  IN  [raised |-> FALSE, assigned |-> TRUE,
                       val |-> RAdd(g0, RSum([i \in 1..n |->
                                  RMul(RSub(values[i], g0),
                                       RDiv(weights_[i], total_weights_))]))]
        ELSE [raised |-> FALSE, assigned |-> FALSE, val |-> NaN]

\* the body of the per-cell loop of inverse_distance for grid point g:
\* [raised, assigned, val]
IDWCell(g) ==
    LET matches == query_ball_point(grid_points[g], r)
        n       == Len(matches)
        values  == [i \in 1..n |-> RInt(variable[matches[i]])]
        dist    == [i \in 1..n |->
                       dist_2(grid_points[g][1], grid_points[g][2],
                              xp[matches[i]], yp[matches[i]])]
    IN  IF n < min_neighbors
        THEN [raised |-> FALSE, assigned |-> FALSE, val |-> NaN]
        ELSE IF kind = "cressman"
        THEN LET weights == cressman_weights(dist, r)
                 total_weights == RSum(weights)
             IN  [raised |-> FALSE, assigned |-> TRUE,
                  val |-> RSum([i \in 1..n |->
                              RMul(values[i], RDiv(weights[i], total_weights))])]
        ELSE IF kind = "barnes"
        THEN IF kappa = None \/ gamma = None
             THEN [raised |-> TRUE, assigned |-> FALSE, val |-> NaN]
             ELSE LET weights  == barnes_weights(dist, Val(kappa), 1)
                      weights_ == barnes_weights(dist, Val(kappa), Val(gamma))
                      total_weights  == RSum(weights)
                      total_weights_ == RSum(weights_)
                      g0 == RSum([i \in 1..n |->
                                RMul(values[i], RDiv(weights[i], total_weights))])
                  IN  [raised |-> FALSE, assigned |-> TRUE,
                       val |-> RAdd(g0, RSum([i \in 1..n |->
                                  RMul(RSub(values[i], g0),
                                       RDiv(weights_[i], total_weights_))]))]
        ELSE [raised |-> FALSE, assigned |-> FALSE, val |-> NaN]

(* ------------------------ natural_neighbor ----------------------------- *)
\* variable[(tri.points[p][0] == xp) & (tri.points[p][1] == yp)][0]
ObservationValue(t, p) ==
    LET k == CHOOSE k \in 1..Len(xp) :
                 /\ xp[k] = t.points[p][1] /\ yp[k] = t.points[p][2]
                 /\ \A j \in 1..(k - 1) :
                        ~(xp[j] = t.points[p][1] /\ yp[j] = t.points[p][2])
    IN  RInt(variable[k])

\* lines 71-100: iterations i, i+1, ... of the boundary walk of one cell.
\* st = [p1, p2, polygon, total_area, area_list, steps, raised]
RECURSIVE BoundaryWalk(_, _, _, _, _, _)
BoundaryWalk(t, gp, neighbors, edge_vertices, i, st) ==
    LET num_vertices == Len(edge_vertices)
    IN  IF i = num_vertices \/ st.raised # "none" THEN st
        ELSE
        LET p3 == edge_vertices[((i + 2) % num_vertices) + 1]
            c2 == circumcenter(gp, t.points[p3], t.points[st.p2])
        IN  IF c2.raised
            THEN \* except ZeroDivisionError: area_list.append(0); continue
                 BoundaryWalk(t, gp, neighbors, edge_vertices, i + 1,
                     [st EXCEPT !.area_list = Append(@, RInt(0)),
                                !.steps = Append(@, [shared |-> st.p2, p1 |-> st.p1,
                                    p3 |-> p3, degenerate |-> TRUE,
                                    cur_area |-> RInt(0),
                                    value |-> ObservationValue(t, st.p2)])])
            ELSE
            LET incident == SelectSeq(neighbors,
                                LAMBDA k : st.p2 \in Range(t.simplices[k]))
                polygon == st.polygon \o <<c2.cc>>
                             \o [k \in 1..Len(incident) |->
                                    TriangleInfo(t, incident[k]).cc]
            IN  IF ConvexHullRaises(polygon)
                THEN [st EXCEPT !.raised = "QhullError"]
                ELSE
                LET pts == ConvexHullPts(polygon)
                    value == ObservationValue(t, st.p2)
                    cur_area == area(pts)
                IN  BoundaryWalk(t, gp, neighbors, edge_vertices, i + 1,
                        [p1 |-> st.p2, p2 |-> p3, polygon |-> <<c2.cc>>,
                         total_area |-> RAdd(st.total_area, cur_area),
                         area_list |-> Append(st.area_list, RMul(cur_area, value)),
                         steps |-> Append(st.steps, [shared |-> st.p2, p1 |-> st.p1,
                                    p3 |-> p3, degenerate |-> FALSE,
                                    cur_area |-> cur_area, value |-> value]),
                         raised |-> "none"])

NoWalk ==
    [p1 |-> 0, p2 |-> 0, polygon |-> <<>>, total_area |-> RInt(0),
     area_list |-> <<>>, steps |-> <<>>, raised |-> "none"]

\* lines 53-100 for one grid point with a non-empty NeighborSet, the
\* ordered boundary starting at edges[first]
CellWalk(t, gp, neighbors) ==
    LET edges == find_local_boundary(t, neighbors)
        ordered == order_edges(edges)
        edge_vertices == [k \in 1..Len(ordered) |-> ordered[k][1]]
    IN  IF Len(edge_vertices) < 2
        THEN [NoWalk EXCEPT !.raised = "IndexError"]
        ELSE
        LET p1 == edge_vertices[1]
            p2 == edge_vertices[2]
            c1 == circumcenter(gp, t.points[p1], t.points[p2])
        IN  IF c1.raised
            THEN [NoWalk EXCEPT !.raised = "ZeroDivisionError"]
            ELSE BoundaryWalk(t, gp, neighbors, edge_vertices, 0,
                     [NoWalk EXCEPT !.p1 = p1, !.p2 = p2, !.polygon = <<c1.cc>>])

\* the cell value without the division by total_area
CellValue_unnormalised(w) == RSum(w.area_list)

\* sum([x / total_area for x in area_list])
CellValue(w) ==
    RSum([k \in 1..Len(w.area_list) |-> RDiv(w.area_list[k], w.total_area)])

(* ------------------------- inputs -------------------------------------- *)
\* observation sites: the corners of a square and its centre
PoolPts == <<<<0, 0>>, <<2, 0>>, <<2, 2>>, <<0, 2>>, <<1, 1>>>>

\* the strictly increasing index sequences over 1..n of length at most m
RECURSIVE SubSeqs(_, _)
SubSeqs(n, m) ==
    IF n = 0 THEN {<<>>}
    ELSE LET rest == SubSeqs(n - 1, m)
         IN  rest \cup {Append(s, n) : s \in {t \in rest : Len(t) < m}}

\* the observation values: the position in the list, or one value everywhere
ValueVectors(n) ==
    {[i \in 1..n |-> i - 1]} \cup {[i \in 1..n |-> c] : c \in 0..MaxVal}

Meshgrid(R, C, x0, y0) ==
    [gx |-> [row \in 1..R |-> [col \in 1..C |-> x0 + (col - 1)]],
     gy |-> [row \in 1..R |-> [col \in 1..C |-> y0 + (row - 1)]]]

Meshgrids(origins) ==
    {Meshgrid(R, C, o[1], o[2]) : R \in 1..MaxDim, C \in 1..MaxDim, o \in origins}

RValues == {-1, 0, 2, 4}
MinNeighborValues == {0, 1, 3}
KappaValues == {None, Some(4)}
GammaValues == {None, Some(1), Some(2)}
KindValues == {"cressman", "barnes", "linear"}

(* ----------------------- inverse_distance ------------------------------ *)
InitIDW ==
    /\ call = "inverse_distance"
    /\ \E sel \in SubSeqs(Len(PoolPts), MaxObs) :
          /\ sel # <<>>
          /\ xp = [i \in 1..Len(sel) |-> PoolPts[sel[i]][1]]
          /\ yp = [i \in 1..Len(sel) |-> PoolPts[sel[i]][2]]
          /\ variable \in ValueVectors(Len(sel))
    /\ \E m \in Meshgrids({<<1, 1>>}) : grid_x = m.gx /\ grid_y = m.gy
    /\ r \in RValues
    /\ min_neighbors \in MinNeighborValues
    /\ kind \in KindValues
    /\ kappa \in (IF kind = "barnes" THEN KappaValues ELSE {None})
    /\ gamma \in (IF kind = "barnes" THEN GammaValues ELSE {None})
    /\ pc = "idw_call"
    /\ grid_points = <<>>
    /\ img = <<>>
    /\ idx = 0
    /\ written = {}
    /\ tri = NoTri
    /\ members = <<>>
    /\ walks = <<>>
    /\ triangle_info = <<>>
    /\ NoBoundaryCall
    /\ NoMap
    /\ result = NoResult
    /\ err = "none"

nnvars == <<tri, members, walks, triangle_info>>

inputs == <<call, xp, yp, variable, grid_x, grid_y, r, gamma, kappa, min_neighbors, kind>>

\* lines 206-213: build the tree, flatten the grid, fill img with NaN
IDW_Setup ==
    /\ pc = "idw_call"
    /\ grid_points' = generate_grid_coords(grid_x, grid_y)
    /\ img' = [g \in 1..(Rows(grid_x) * Cols(grid_x)) |-> NaN]
    /\ idx' = 0
    /\ pc' = "idw_loop"
    /\ UNCHANGED <<inputs, written, nnvars, flbvars, mapvars, result, err>>

\* lines 215-238: one iteration of the per-cell loop
IDW_Cell ==
    /\ pc = "idw_loop"
    /\ idx < Len(grid_points)
    /\ LET c == IDWCell(idx + 1)
       IN  IF c.raised
           THEN /\ pc' = "raised"
                /\ err' = "TypeError"
                /\ UNCHANGED <<img, idx, written>>
           ELSE /\ img' = IF c.assigned THEN [img EXCEPT ![idx + 1] = c.val] ELSE img
                /\ written' = IF c.assigned THEN written \cup {idx + 1} ELSE written
                /\ idx' = idx + 1
                /\ UNCHANGED <<pc, err>>
    /\ UNCHANGED <<inputs, grid_points, nnvars, flbvars, mapvars, result>>

\* lines 240-241: the reshaped copy is discarded, the flat array is returned
IDW_Return ==
    /\ pc = "idw_loop"
    /\ idx = Len(grid_points)
    /\ result' = [shape |-> <<Len(img)>>, data |-> img]
    /\ pc' = "returned"
    /\ UNCHANGED <<inputs, grid_points, img, idx, written, nnvars, flbvars, mapvars, err>>

NextIDW == IDW_Setup \/ IDW_Cell \/ IDW_Return

SpecIDW == InitIDW /\ [][NextIDW]_vars

(* ------------------- natural_neighbor: the call ------------------------ *)
\* observation sites: a square, a point inside it and one on its lower side
NNPoolPts == <<<<0, 0>>, <<4, 0>>, <<4, 4>>, <<0, 4>>, <<2, 1>>, <<2, 0>>>>

NNOrigins == {<<0, 0>>, <<2, 1>>}

\* the observation values: the position in the list, or MaxVal everywhere
NNValueVectors(n) == {[i \in 1..n |-> i - 1], [i \in 1..n |-> MaxVal]}

InitNN ==
    /\ call = "natural_neighbor"
    /\ \E sel \in SubSeqs(Len(NNPoolPts), MaxObs) :
          /\ xp = [i \in 1..Len(sel) |-> NNPoolPts[sel[i]][1]]
          /\ yp = [i \in 1..Len(sel) |-> NNPoolPts[sel[i]][2]]
          /\ variable \in NNValueVectors(Len(sel))
    /\ \E m \in Meshgrids(NNOrigins) : grid_x = m.gx /\ grid_y = m.gy
    /\ r = 0
    /\ min_neighbors = 3
    /\ kind = "cressman"
    /\ kappa = None
    /\ gamma = None
    /\ pc = "nn_call"
    /\ grid_points = <<>>
    /\ img = <<>>
    /\ idx = 0
    /\ written = {}
    /\ tri = NoTri
    /\ members = <<>>
    /\ walks = <<>>
    /\ triangle_info = <<>>
    /\ NoBoundaryCall
    /\ NoMap
    /\ result = NoResult
    /\ err = "none"

\* lines 40-47: triangulate, flatten the grid, find the NeighborSets, fill
\* img with NaN.  Delaunay returns counter-clockwise simplices; which
\* triangulation of cocircular points and which vertex each simplex starts
\* from are the library's choice.
NN_Setup ==
    /\ pc = "nn_call"
    /\ LET pts == [i \in 1..Len(xp) |-> <<xp[i], yp[i]>>]
       IN  IF DelaunayRaises(pts)
           THEN /\ pc' = "raised"
                /\ err' = "QhullError"
                /\ UNCHANGED <<grid_points, img, tri, members, triangle_info>>
           ELSE /\ \E T \in Triangulations(pts) : \E k \in 0..2 :
                      LET sorted == SortTriples(T)
                      IN  tri' = [points |-> pts,
                                  simplices |-> [i \in 1..Len(sorted) |->
                                                    Rotate(sorted[i], k)]]
                /\ grid_points' = generate_grid_coords(grid_x, grid_y)
                /\ members' = find_natural_neighbors(tri', grid_points')
                /\ triangle_info' = [i \in 1..Len(tri'.simplices) |->
                                         TriangleInfo(tri', i)]
                /\ img' = [g \in 1..(Rows(grid_x) * Cols(grid_x)) |-> NaN]
                /\ pc' = "nn_loop"
                /\ err' = err
    /\ UNCHANGED <<inputs, idx, written, walks, flbvars, mapvars, result>>

\* lines 49-103: one iteration of the per-cell loop
NN_Cell ==
    /\ pc = "nn_loop"
    /\ idx < Len(grid_points)
    /\ LET neighbors == members[idx + 1]
           w == IF Len(neighbors) > 0
                THEN CellWalk(tri, grid_points[idx + 1], neighbors)
                ELSE NoWalk
       IN  /\ walks' = Append(walks, w)
           /\ IF w.raised # "none"
              THEN /\ pc' = "raised"
                   /\ err' = w.raised
                   /\ UNCHANGED <<img, idx, written>>
              ELSE /\ IF RLess(RInt(0), w.total_area)
                      THEN /\ img' = [img EXCEPT ![idx + 1] = CellValue(w)]
                           /\ written' = written \cup {idx + 1}
                      ELSE UNCHANGED <<img, written>>
                   /\ idx' = idx + 1
                   /\ UNCHANGED <<pc, err>>
    /\ UNCHANGED <<inputs, grid_points, tri, members, triangle_info, flbvars, mapvars,
                   result>>

\* the return without the reshape: the flat array
NN_Return_flat ==
    /\ pc = "nn_loop"
    /\ idx = Len(grid_points)
    /\ result' = [shape |-> <<Len(img)>>, data |-> img]
    /\ pc' = "returned"
    /\ UNCHANGED <<inputs, grid_points, img, idx, written, nnvars, flbvars, mapvars, err>>

\* lines 105-106: reshape to the grid's shape and return
NN_Return ==
    /\ pc = "nn_loop"
    /\ idx = Len(grid_points)
    /\ result' = [shape |-> <<Rows(grid_x), Cols(grid_x)>>, data |-> img]
    /\ pc' = "returned"
    /\ UNCHANGED <<inputs, grid_points, img, idx, written, nnvars, flbvars, mapvars, err>>

NextNN == NN_Setup \/ NN_Cell \/ NN_Return

SpecNN == InitNN /\ [][NextNN]_vars

(* ------------------ find_local_boundary: the call ---------------------- *)
\* the simplex with its orientation reversed
Flip(t) == <<t[1], t[3], t[2]>>

\* which simplices are handed over clockwise: none, all, or a single one
FlipMasks(n) == {{}, 1..n} \cup {{i} : i \in 1..n}

Reverse(s) == [i \in 1..Len(s) |-> s[Len(s) + 1 - i]]

\* lists of distinct simplex indices, in increasing or decreasing order
TriangleLists(n) ==
    SubSeqs(n, n) \cup {Reverse(l) : l \in SubSeqs(n, n)}

InitFLB ==
    /\ call = "find_local_boundary"
    /\ \E sel \in SubSeqs(Len(NNPoolPts), MaxObs) :
          /\ xp = [i \in 1..Len(sel) |-> NNPoolPts[sel[i]][1]]
          /\ yp = [i \in 1..Len(sel) |-> NNPoolPts[sel[i]][2]]
          /\ variable = [i \in 1..Len(sel) |-> 0]
    /\ LET pts == [i \in 1..Len(xp) |-> <<xp[i], yp[i]>>]
       IN  /\ ~DelaunayRaises(pts)
           /\ \E T \in Triangulations(pts) : \E k \in 0..2 :
               \E mask \in FlipMasks(Cardinality(T)) :
                  LET sorted == SortTriples(T)
                  IN  tri = [points |-> pts,
                             simplices |-> [i \in 1..Len(sorted) |->
                                 IF i \in mask THEN Flip(Rotate(sorted[i], k))
                                 ELSE Rotate(sorted[i], k)]]
    /\ flb_triangles \in TriangleLists(Len(tri.simplices))
    /\ flb_edges = <<>>
    /\ grid_x = <<>>
    /\ grid_y = <<>>
    /\ r = 0
    /\ min_neighbors = 3
    /\ kind = "cressman"
    /\ kappa = None
    /\ gamma = None
    /\ pc = "flb_loop"
    /\ grid_points = <<>>
    /\ img = <<>>
    /\ idx = 0
    /\ written = {}
    /\ members = <<>>
    /\ walks = <<>>
    /\ triangle_info = <<>>
    /\ NoMap
    /\ result = NoResult
    /\ err = "none"

\* lines 274-288: one iteration of the loop over the given triangles
FLB_Triangle ==
    /\ pc = "flb_loop"
    /\ idx < Len(flb_triangles)
    /\ flb_edges' = find_local_boundary_from(tri, <<flb_triangles[idx + 1]>>, 1,
                                             flb_edges)
    /\ idx' = idx + 1
    /\ UNCHANGED <<inputs, pc, grid_points, img, written, nnvars, flb_triangles,
                   mapvars, result, err>>

\* line 290: return edges
FLB_Return ==
    /\ pc = "flb_loop"
    /\ idx = Len(flb_triangles)
    /\ result' = [shape |-> <<Len(flb_edges)>>, data |-> flb_edges]
    /\ pc' = "returned"
    /\ UNCHANGED <<inputs, grid_points, img, idx, written, nnvars, flbvars, mapvars,
                   err>>

NextFLB == FLB_Triangle \/ FLB_Return

SpecFLB == InitFLB /\ [][NextFLB]_vars

(* ------------------------- MetpyMap: the calls ------------------------- *)
\* data locations: a URL, a file with an extension, a bare name
Locations ==
    {<<"h", "t", "t", "p", ":", "/", "/", "h", "/", "f", ".", "n", "c">>,
     <<"d", "/", "f", ".", "t", "x", "t">>,
     <<"f">>}

OptionKeys ==
    {"data_location", "data_type", "data_file", "variable_to_plot", "datetime", "title"}

\* the value an option has when it is given
OptionValue(key) ==
    CASE key = "data_type"        -> <<"t", "x", "t">>
      [] key = "data_file"        -> <<"S", ".", "t", "x", "t">>
      [] key = "variable_to_plot" -> <<"a", "i", "r">>
      [] key = "datetime"         -> <<"n", "o", "w">>
      [] OTHER                    -> <<"T">>

OptionDicts ==
    UNION {IF "data_location" \in K
           THEN {[k \in K |-> IF k = "data_location" THEN loc ELSE OptionValue(k)] :
                    loc \in Locations}
           ELSE {[k \in K |-> OptionValue(k)]} : K \in SUBSET OptionKeys}

ArgKeys == {"a", "b", "datetime", "data_file"}

RECURSIVE KeyLists(_)
KeyLists(n) ==
    IF n = 0 THEN {<<>>}
    ELSE KeyLists(n - 1)
         \cup {Append(l, k) : l \in {m \in KeyLists(n - 1) : Len(m) = n - 1},
                               k \in ArgKeys}

\* the values handed to add and update: "1", "2", ...
NewValues(n) == [i \in 1..n |-> <<<<"1", "2", "3", "4", "5", "6", "7", "8", "9">>[i]>>]

InitMap ==
    /\ call \in {"MetpyMap", "add", "remove", "update"}
    /\ options \in OptionDicts
    /\ parameters \in (IF call = "MetpyMap" THEN {<<>>} ELSE KeyLists(MaxArgs))
    /\ map_values = (IF call \in {"add", "update"} THEN NewValues(Len(parameters))
                     ELSE <<>>)
    /\ params = EmptyDict
    /\ optional_params = <<>>
    /\ required_params = <<>>
    /\ warned = <<>>
    /\ pc = "map_call"
    /\ xp = <<>>
    /\ yp = <<>>
    /\ variable = <<>>
    /\ grid_x = <<>>
    /\ grid_y = <<>>
    /\ r = 0
    /\ min_neighbors = 3
    /\ kind = "cressman"
    /\ kappa = None
    /\ gamma = None
    /\ grid_points = <<>>
    /\ img = <<>>
    /\ idx = 0
    /\ written = {}
    /\ tri = NoTri
    /\ members = <<>>
    /\ walks = <<>>
    /\ triangle_info = <<>>
    /\ NoBoundaryCall
    /\ result = NoResult
    /\ err = "none"

mapframe ==
    <<xp, yp, variable, grid_x, grid_y, r, gamma, kappa, min_neighbors, kind,
      grid_points, img, idx, written, nnvars, flbvars, result, call, parameters,
      map_values>>

\* the state MetpyMap(options) leaves behind, and whether it raised
Constructed(c) ==
    /\ options' = c.options
    /\ optional_params' = c.optional_params
    /\ required_params' = c.required_params

ConstructorRaised(c) ==
    /\ Constructed(c)
    /\ params' = c.params
    /\ warned' = c.warned
    /\ pc' = "raised"
    /\ err' = c.raised

\* MetpyMap(options)
MM_Construct ==
    /\ pc = "map_call"
    /\ call = "MetpyMap"
    /\ LET c == MetpyMap_init(options)
       IN  IF c.raised # "none" THEN ConstructorRaised(c)
           ELSE /\ Constructed(c)
                /\ params' = c.params
                /\ warned' = c.warned
                /\ pc' = "returned"
                /\ err' = "none"
    /\ UNCHANGED mapframe

\* gmap = MetpyMap(options); gmap.add(parameters, values)
MM_Add ==
    /\ pc = "map_call"
    /\ call = "add"
    /\ LET c == MetpyMap_init(options)
       IN  IF c.raised # "none" THEN ConstructorRaised(c)
           ELSE LET m == MetpyMap_add(c.params, c.optional_params,
                                      c.required_params, parameters, map_values, 1)
                IN  /\ Constructed(c)
                    /\ params' = m.params
                    /\ warned' = c.warned
                    /\ pc' = (IF m.raised = "none" THEN "returned" ELSE "raised")
                    /\ err' = m.raised
    /\ UNCHANGED mapframe

\* gmap = MetpyMap(options); gmap.remove(parameters)
MM_Remove ==
    /\ pc = "map_call"
    /\ call = "remove"
    /\ LET c == MetpyMap_init(options)
       IN  IF c.raised # "none" THEN ConstructorRaised(c)
           ELSE LET m == MetpyMap_remove(c.params, c.required_params, parameters,
                                         c.warned, 1)
                IN  /\ Constructed(c)
                    /\ params' = m.params
                    /\ warned' = m.warned
                    /\ pc' = (IF m.raised = "none" THEN "returned" ELSE "raised")
                    /\ err' = m.raised
    /\ UNCHANGED mapframe

\* gmap = MetpyMap(options); gmap.update(parameters, values)
MM_Update ==
    /\ pc = "map_call"
    /\ call = "update"
    /\ LET c == MetpyMap_init(options)
       IN  IF c.raised # "none" THEN ConstructorRaised(c)
           ELSE LET m == MetpyMap_update(c.params, parameters, map_values,
                                         c.warned, 1)
                IN  /\ Constructed(c)
                    /\ params' = m.params
                    /\ warned' = m.warned
                    /\ pc' = (IF m.raised = "none" THEN "returned" ELSE "raised")
                    /\ err' = m.raised
    /\ UNCHANGED mapframe

NextMap == MM_Construct \/ MM_Add \/ MM_Remove \/ MM_Update

SpecMap == InitMap /\ [][NextMap]_vars

(* ======================= properties: inverse_distance =================== *)
GridRows == Len(grid_x)
GridCols == Len(grid_x[1])
GridCells == {<<row, col>> : row \in 1..GridRows, col \in 1..GridCols}
FlatIndex(cell) == (cell[1] - 1) * GridCols + cell[2]
GridX(cell) == grid_x[cell[1]][cell[2]]
GridY(cell) == grid_y[cell[1]][cell[2]]

\* the per-cell loop has passed this cell
Evaluated(cell) ==
    /\ call = "inverse_distance"
    /\ pc \in {"idw_loop", "returned"}
    /\ FlatIndex(cell) <= idx

\* squared distance from the cell's grid point to observation i
D2(cell, i) ==
    (xp[i] - GridX(cell)) * (xp[i] - GridX(cell))
        + (yp[i] - GridY(cell)) * (yp[i] - GridY(cell))

\* the observations within distance <= r of the cell's grid point
Candidates(cell) == {i \in 1..Len(xp) : r >= 0 /\ D2(cell, i) <= r * r}

RECURSIVE SumOver(_, _)
SumOver(S, f) ==
    IF S = {} THEN RInt(0)
    ELSE LET i == CHOOSE j \in S : TRUE
         IN  RAdd(f[i], SumOver(S \ {i}, f))

\* C1: a cell with fewer than min_neighbors observations within distance
\* <= r is NaN, a cell with at least min_neighbors of them receives a
\* computed value (kind cressman or barnes), and in particular a cell
\* farther than r from every observation is NaN.
C1_NeighborGate ==
    \A cell \in GridCells :
        (Evaluated(cell) /\ r > 0) =>
            LET n == Cardinality(Candidates(cell))
                g == FlatIndex(cell)
            IN  /\ n < min_neighbors => IsNaN(img[g])
                /\ (n >= min_neighbors /\ kind \in {"cressman", "barnes"})
                       => g \in written
                /\ n = 0 => IsNaN(img[g])

\* the Cressman weight of observation i at a cell
CressmanW(cell, i) == Rat(r * r - D2(cell, i), r * r + D2(cell, i))

CressmanExpected(cell) ==
    LET C == Candidates(cell)
        w == [i \in 1..Len(xp) |-> CressmanW(cell, i)]
        wv == [i \in 1..Len(xp) |-> RMul(w[i], RInt(variable[i]))]
    IN  RDiv(SumOver(C, wv), SumOver(C, w))

CressmanTotal(cell) ==
    SumOver(Candidates(cell), [i \in 1..Len(xp) |-> CressmanW(cell, i)])

Mean(cell) ==
    Rat(SumOver(Candidates(cell), [i \in 1..Len(xp) |-> RInt(variable[i])])[1],
        Cardinality(Candidates(cell)))

Equidistant(cell) ==
    /\ Candidates(cell) # {}
    /\ \A i, j \in Candidates(cell) : D2(cell, i) = D2(cell, j)

CressmanCell(cell) ==
    /\ kind = "cressman"
    /\ r > 0
    /\ Evaluated(cell)
    /\ Candidates(cell) # {}
    /\ Cardinality(Candidates(cell)) >= min_neighbors

BarnesW(cell, i, g) == ExpNeg(Rat(D2(cell, i), Val(kappa) * g))

BarnesG0(cell) ==
    LET C == Candidates(cell)
        w == [i \in 1..Len(xp) |-> BarnesW(cell, i, 1)]
        wv == [i \in 1..Len(xp) |-> RMul(w[i], RInt(variable[i]))]
    IN  RDiv(SumOver(C, wv), SumOver(C, w))

BarnesG1(cell, g) ==
    LET C == Candidates(cell)
        g0 == BarnesG0(cell)
        w == [i \in 1..Len(xp) |-> BarnesW(cell, i, g)]
        wd == [i \in 1..Len(xp) |-> RMul(w[i], RSub(RInt(variable[i]), g0))]
    IN  RAdd(g0, RDiv(SumOver(C, wd), SumOver(C, w)))

\* gamma as passed, 1.0 when it is left out
GammaOrDefault == IF gamma = None THEN 1 ELSE Val(gamma)

\* C3: with kind 'barnes', kappa supplied and gamma supplied or left at its
\* default, every cell with at least min_neighbors candidates gets
\* g1 = g0 + sum(w'*(v - g0))/sum(w'); equal candidate values v give v, and
\* gamma = 1 gives g0.
C3_Barnes ==
    (call = "inverse_distance" /\ kind = "barnes" /\ kappa # None /\ r > 0) =>
        /\ pc # "raised"
        /\ \A cell \in GridCells :
               (/\ Evaluated(cell)
                /\ Candidates(cell) # {}
                /\ Cardinality(Candidates(cell)) >= min_neighbors) =>
                   /\ img[FlatIndex(cell)] = BarnesG1(cell, GammaOrDefault)
                   /\ \A v \in 0..(MaxObs + MaxVal) :
                          (\A i \in Candidates(cell) : variable[i] = v)
                              => img[FlatIndex(cell)] = RInt(v)
                   /\ GammaOrDefault = 1 => img[FlatIndex(cell)] = BarnesG0(cell)

\* C4: inverse_distance returns an array of the grid's shape R x C, element
\* [row, col] being the value of grid point (grid_x[row, col],
\* grid_y[row, col]), never the flat array of length R*C.
C4_GridShape ==
    (call = "inverse_distance" /\ pc = "returned") =>
        /\ result.shape = <<GridRows, GridCols>>
        /\ Len(result.data) = GridRows * GridCols
        /\ \A cell \in GridCells : result.data[FlatIndex(cell)] = img[FlatIndex(cell)]

(* ======================= properties: natural_neighbor =================== *)
NNEvaluated(cell) ==
    /\ call = "natural_neighbor"
    /\ pc \in {"nn_loop", "returned"}
    /\ FlatIndex(cell) <= idx

GridPt(cell) == <<GridX(cell), GridY(cell)>>
Obs(i) == <<xp[i], yp[i]>>

\* p lies in the convex hull of the observations: in a closed triangle
\* spanned by three of them
InsideHull(p) ==
    \E i, j, k \in 1..Len(xp) :
        /\ Orient(Obs(i), Obs(j), Obs(k)) > 0
        /\ Orient(Obs(i), Obs(j), p) >= 0
        /\ Orient(Obs(j), Obs(k), p) >= 0
        /\ Orient(Obs(k), Obs(i), p) >= 0

\* the number of simplices whose closed circumdisk holds p
CirclesAround(p) ==
    Cardinality({i \in 1..Len(tri.simplices) :
        RLeq(RDist2(RPoint(p), TriangleInfo(tri, i).cc), TriangleInfo(tri, i).r)})

\* C5: a grid point outside the convex hull of the observations has an
\* empty NeighborSet, is never assigned and stays NaN, however many
\* circumcircles contain it.
C5_OutsideHullNaN ==
    \A cell \in GridCells :
        (NNEvaluated(cell) /\ ~InsideHull(GridPt(cell))) =>
            /\ members[FlatIndex(cell)] = <<>>
            /\ FlatIndex(cell) \notin written
            /\ IsNaN(img[FlatIndex(cell)])
            /\ pc = "returned" => IsNaN(result.data[FlatIndex(cell)])

C5_Witness ==
    \E cell \in GridCells :
        /\ NNEvaluated(cell)
        /\ ~InsideHull(GridPt(cell))
        /\ CirclesAround(GridPt(cell)) >= 1
        /\ \E other \in GridCells : NNEvaluated(other) /\ FlatIndex(other) \in written

\* the weights sub_area / total_area of a finished walk
WalkWeights(w) ==
    [k \in 1..Len(w.steps) |-> RDiv(w.steps[k].cur_area, w.total_area)]

\* the observation values of the vertices that contributed a sub-polygon
ContributingValues(w) ==
    {RInt(variable[w.steps[k].shared]) :
        k \in {j \in 1..Len(w.steps) : RLess(RInt(0), w.steps[j].cur_area)}}

\* C6: for a cell inside the hull with total_area > 0 the weights
\* sub_area / total_area are non-negative and sum to 1, the cell value is
\* the combination of the shared vertices' values with these weights, and
\* it lies within [min, max] of the contributing values.
C6_PartitionOfUnity ==
    \A cell \in GridCells :
        (/\ NNEvaluated(cell)
         /\ InsideHull(GridPt(cell))
         /\ RLess(RInt(0), walks[FlatIndex(cell)].total_area)) =>
            LET w == walks[FlatIndex(cell)]
                wt == WalkWeights(w)
                v == img[FlatIndex(cell)]
            IN  /\ \A k \in 1..Len(wt) : RLeq(RInt(0), wt[k])
                /\ RSum(wt) = RInt(1)
                /\ v = RSum([k \in 1..Len(wt) |->
                            RMul(wt[k], RInt(variable[w.steps[k].shared]))])
                /\ \E lo \in ContributingValues(w) : RLeq(lo, v)
                /\ \E hi \in ContributingValues(w) : RLeq(v, hi)

C6_Witness ==
    \E cell \in GridCells :
        /\ NNEvaluated(cell)
        /\ InsideHull(GridPt(cell))
        /\ RLess(RInt(0), walks[FlatIndex(cell)].total_area)
        /\ \E lo, hi \in ContributingValues(walks[FlatIndex(cell)]) :
               RLess(lo, img[FlatIndex(cell)]) /\ RLess(img[FlatIndex(cell)], hi)

\* the cell the per-cell loop was evaluating when the call raised
FailedCell == CHOOSE cell \in GridCells : FlatIndex(cell) = idx + 1
RaisedInLoop == call = "natural_neighbor" /\ pc = "raised" /\ tri # NoTri

Coincident(cell, i) == Obs(i) = GridPt(cell)

\* C7: a grid point that coincides with an observation point receives
\* exactly that observation's value.
C7_Exactness ==
    /\ \A cell \in GridCells : \A i \in 1..Len(xp) :
           (NNEvaluated(cell) /\ Coincident(cell, i))
               => img[FlatIndex(cell)] = RInt(variable[i])
    /\ RaisedInLoop => \A i \in 1..Len(xp) : ~Coincident(FailedCell, i)

\* C8: a degenerate circumcenter (collinear or coincident points) in a
\* cell's walk is never surfaced as an error: the sub-polygon counts zero
\* area, and the rest of the cell and of the grid is still computed.
C8_DegenerateContained ==
    /\ \A g \in 1..Len(walks) : \A k \in 1..Len(walks[g].steps) :
           walks[g].steps[k].degenerate =>
               /\ walks[g].steps[k].cur_area = RInt(0)
               /\ walks[g].area_list[k] = RInt(0)
    /\ RaisedInLoop =>
           /\ err # "ZeroDivisionError"
           /\ \A k \in 1..Len(walks[Len(walks)].steps) :
                  ~walks[Len(walks)].steps[k].degenerate

\* C9: an invalid configuration raises before any grid cell is evaluated
\* and never returns a grid: natural_neighbor with fewer than 3
\* observations, inverse_distance with kind 'barnes' and no kappa, and
\* inverse_distance with r <= 0.
InvalidConfiguration ==
    \/ call = "natural_neighbor" /\ Len(xp) < 3
    \/ call = "inverse_distance" /\ kind = "barnes" /\ kappa = None
    \/ call = "inverse_distance" /\ r <= 0

C9_FailFast ==
    InvalidConfiguration =>
        /\ idx = 0
        /\ written = {}
        /\ pc \notin {"idw_loop", "nn_loop", "returned"}

\* the boundary edges of a NeighborSet order into one closed loop that
\* visits every boundary vertex once
ClosedLoop(edges) ==
    LET o == order_edges(edges)
    IN  /\ Len(o) = Len(edges)
        /\ Len(o) >= 2
        /\ o[Len(o)][2] = o[1][1]
        /\ Cardinality({o[k][1] : k \in 1..Len(o)}) = Len(o)

\* C10: a cell whose boundary does not order into a single closed loop is
\* marked NaN and the other cells are still computed; no per-cell anomaly
\* aborts the call.
C10_PerCellDegradation ==
    /\ \A cell \in GridCells :
           (/\ NNEvaluated(cell)
            /\ members[FlatIndex(cell)] # <<>>
            /\ ~ClosedLoop(find_local_boundary(tri, members[FlatIndex(cell)])))
               => IsNaN(img[FlatIndex(cell)])
    /\ (call = "natural_neighbor" /\ pc = "raised") => tri = NoTri

(* ===================== properties: find_local_boundary ================== *)
Undirected(e) == {e[1], e[2]}

\* the undirected edges of simplex i
SimplexEdges(i) == {Undirected(e) : e \in TriEdges(tri.simplices[i])}

\* the number of triangles among the first n listed that have edge u
Owners(u, n) == Cardinality({k \in 1..n : u \in SimplexEdges(flb_triangles[k])})

\* C11: find_local_boundary returns exactly the undirected edges that
\* belong to exactly one listed triangle, each once and never together
\* with its reverse, whichever way round each triangle contributes its
\* edges (after every iteration, for the triangles handled so far); two
\* triangles sharing exactly one edge give the 4 outer edges.
C11_BoundaryXor ==
    call = "find_local_boundary" =>
        /\ \A j \in 1..Len(flb_edges) : Owners(Undirected(flb_edges[j]), idx) = 1
        /\ \A k \in 1..idx : \A u \in SimplexEdges(flb_triangles[k]) :
               Owners(u, idx) = 1 =>
                   \E j \in 1..Len(flb_edges) : Undirected(flb_edges[j]) = u
        /\ \A i, j \in 1..Len(flb_edges) :
               Undirected(flb_edges[i]) = Undirected(flb_edges[j]) => i = j
        /\ (pc = "returned" /\ Len(flb_triangles) = 2
               /\ Cardinality(SimplexEdges(flb_triangles[1])
                                \cap SimplexEdges(flb_triangles[2])) = 1)
              => /\ Len(result.data) = 4
                 /\ result.data = flb_edges

\* two listed triangles share an edge that both contribute the same way
\* round, a third one follows, and the call has returned
C11_Witness ==
    /\ call = "find_local_boundary"
    /\ pc = "returned"
    /\ Len(flb_triangles) = 3
    /\ \E e \in TriEdges(tri.simplices[flb_triangles[1]]) :
           e \in TriEdges(tri.simplices[flb_triangles[2]])
    /\ Len(result.data) = 3

(* ================== properties: natural_neighbor layout ================= *)
\* element [row, col] of the returned array: numpy indexes the reshaped
\* data row by row
ResultAt(cell) == result.data[(cell[1] - 1) * result.shape[2] + cell[2]]

\* the value natural_neighbor computes for one grid point on its own
WalkAt(p) ==
    LET neighbors == find_natural_neighbors(tri, <<p>>)[1]
    IN  IF Len(neighbors) > 0 THEN CellWalk(tri, p, neighbors) ELSE NoWalk

ValueAt(p) ==
    IF RLess(RInt(0), WalkAt(p).total_area) THEN CellValue(WalkAt(p)) ELSE NaN

\* C12: the grid is flattened row-major, the value computed from the
\* NeighborSet of grid point g is stored at flat position g and nowhere
\* else, and the returned array has the grid's R x C shape with element
\* [row, col] belonging to grid point (grid_x[row, col], grid_y[row, col]).
C12_GridLayout ==
    (call = "natural_neighbor" /\ pc \in {"nn_loop", "returned"}) =>
        /\ Len(grid_points) = GridRows * GridCols
        /\ Len(img) = GridRows * GridCols
        /\ Len(members) = GridRows * GridCols
        /\ \A cell \in GridCells :
               LET g == FlatIndex(cell)
               IN  /\ g = (cell[1] - 1) * GridCols + cell[2]
                   /\ grid_points[g] = GridPt(cell)
                   /\ members[g] = find_natural_neighbors(tri, <<GridPt(cell)>>)[1]
                   /\ IF NNEvaluated(cell)
                      THEN /\ walks[g] = WalkAt(GridPt(cell))
                           /\ img[g] = ValueAt(GridPt(cell))
                      ELSE /\ IsNaN(img[g])
                           /\ g \notin written
        /\ pc = "returned" =>
               /\ result.shape = <<GridRows, GridCols>>
               /\ \A cell \in GridCells : ResultAt(cell) = ValueAt(GridPt(cell))

\* a returned 2 x 2 grid whose first row and first column hold different
\* values
C12_Witness ==
    /\ call = "natural_neighbor"
    /\ pc = "returned"
    /\ GridRows = 2
    /\ GridCols = 2
    /\ written = 1..4
    /\ ResultAt(<<1, 2>>) # ResultAt(<<2, 1>>)

(* ========================= properties: MetpyMap ========================= *)
\* the call has finished, by returning or by raising
MapCallOver(c) == call = c /\ pc \in {"returned", "raised"}

\* options dicts a map is built from: they name the data, as the tests do
\* ('data_file') or as the constructor asks ('data_location'), and its type
NamesData ==
    /\ "data_type" \in DOMAIN options
    /\ "data_file" \in DOMAIN options \/ "data_location" \in DOMAIN options

\* a MetpyMap object came out of the constructor
MapBuilt ==
    /\ optional_params = optional_params_init
    /\ required_params = required_params_init

\* d with the first n (parameter, value) pairs set, later pairs winning
RECURSIVE WithPairs(_, _)
WithPairs(d, n) ==
    IF n = 0 THEN d
    ELSE DictSet(WithPairs(d, n - 1), parameters[n], map_values[n])

\* the value the last pair for key k carries
LastValue(k) ==
    map_values[CHOOSE i \in 1..Len(parameters) :
                   /\ parameters[i] = k
                   /\ \A j \in (i + 1)..Len(parameters) : parameters[j] # k]

\* C13: add(parameters, values) on a map built from an options dict sets
\* params[k] = v for every pair given and leaves the rest, so that params
\* holds exactly the constructor's options plus the added pairs.
C13_Add ==
    (MapCallOver("add") /\ NamesData) =>
        /\ MapBuilt
        /\ err = "none"
        /\ params = WithPairs(options, Len(parameters))

\* C14: remove(parameters) on a map built from an options dict deletes
\* every listed key that is present and not required and leaves all other
\* entries of params unchanged.
C14_Remove ==
    (MapCallOver("remove") /\ NamesData) =>
        /\ MapBuilt
        /\ params = [k \in (DOMAIN options)
                             \ (Range(parameters) \ Range(required_params_init)) |->
                         options[k]]

\* C15: update(parameters, values) on a map built from an options dict
\* replaces the value of every listed key already in params, adds no key
\* and leaves all other entries unchanged.
C15_Update ==
    (MapCallOver("update") /\ NamesData) =>
        /\ MapBuilt
        /\ err = "none"
        /\ params = [k \in DOMAIN options |->
                         IF k \in Range(parameters) THEN LastValue(k)
                         ELSE options[k]]

\* C20: MetpyMap(options) returns normally when options holds
\* 'data_location' and otherwise only optional or required keys, with
\* params holding every recognised option; a missing 'data_type' is
\* inferred ('web' for a location containing 'http', else the extension)
\* with a warning instead of an error.
C20_Constructible ==
    (/\ MapCallOver("MetpyMap")
     /\ "data_location" \in DOMAIN options
     /\ \A k \in (DOMAIN options) \ {"data_location"} :
            Recognised(optional_params_init, required_params_init, k))
    => /\ pc = "returned"
       /\ err = "none"
       /\ MapBuilt
       /\ \A k \in DOMAIN options :
              Recognised(optional_params_init, required_params_init, k)
                  => (k \in DOMAIN params /\ params[k] = options[k])
       /\ "data_type" \in DOMAIN options
       /\ \/ options["data_type"] = OptionValue("data_type")
          \/ /\ Len(warned) = 1
             /\ options["data_type"] =
                    (IF Contains(options["data_location"], Http) THEN Web
                     ELSE SplitLast(options["data_location"], "."))

(* ================= properties: natural_neighbor walk ==================== *)
\* the ordered boundary vertices v of cell g (1-based: v[1] is the code's
\* edge_vertices[0])
EdgeVertices(g) ==
    LET ordered == order_edges(find_local_boundary(tri, members[g]))
    IN  [k \in 1..Len(ordered) |-> ordered[k][1]]

\* the cells whose walk ran to its end
WalkedCells ==
    {g \in 1..Len(walks) : members[g] # <<>> /\ walks[g].raised = "none"}

\* C16: in the walk over the ordered boundary v[0..k) of a cell, each step
\* takes the next vertex of v as the shared neighbour (the walk starts
\* with v[1] and ends with v[0]), with the circumcenters of the grid
\* point with that vertex and its predecessor and successor on the
\* boundary; over the k steps every boundary vertex is the shared
\* neighbour exactly once and its sub-area is weighted by its own value,
\* whether or not a step hit the degenerate case.
C16_SharedVertexWalk ==
    call = "natural_neighbor" =>
        \A g \in WalkedCells :
            LET v == EdgeVertices(g)
                k == Len(v)
                st == walks[g].steps
            IN  /\ Len(st) = k
                /\ \A i \in 1..k :
                       /\ st[i].p1 = v[((i - 1) % k) + 1]
                       /\ st[i].shared = v[(i % k) + 1]
                       /\ st[i].p3 = v[((i + 1) % k) + 1]
                       /\ st[i].value = ObservationValue(tri, st[i].shared)
                       /\ walks[g].area_list[i] = RMul(st[i].cur_area, st[i].value)
                /\ \A u \in Range(v) :
                       Cardinality({i \in 1..k : st[i].shared = u}) = 1

(* ============== properties: find_natural_neighbors ====================== *)
\* the in-circle determinant of the counter-clockwise simplex i and p:
\* positive inside the circumcircle, zero on it
CircleDet(i, p) ==
    LET a == tri.points[tri.simplices[i][1]]
        b == tri.points[tri.simplices[i][2]]
        c == tri.points[tri.simplices[i][3]]
        ax == a[1] - p[1]
        ay == a[2] - p[2]
        bx == b[1] - p[1]
        by == b[2] - p[2]
        cx == c[1] - p[1]
        cy == c[2] - p[2]
    IN  (ax * ax + ay * ay) * (bx * cy - cx * by)
          - (bx * bx + by * by) * (ax * cy - cx * ay)
          + (cx * cx + cy * cy) * (ax * by - bx * ay)

Occurrences(seq, x) == Cardinality({k \in 1..Len(seq) : seq[k] = x})

NeighborsFound == call = "natural_neighbor" /\ pc \in {"nn_loop", "returned"}

\* C17: t is in members[g] if and only if grid point g lies within the
\* circumcircle of simplex t (boundary included) and inside the
\* triangulation; members has an entry for every grid index, holds each t
\* at most once, and triangle_info holds the circumcenter and radius of
\* every simplex.
C17_NaturalNeighbors ==
    NeighborsFound =>
        /\ DOMAIN members = 1..Len(grid_points)
        /\ \A g \in 1..Len(grid_points) : \A t \in 1..Len(tri.simplices) :
               /\ Occurrences(members[g], t) <= 1
               /\ Occurrences(members[g], t) = 1
                      <=> (CircleDet(t, grid_points[g]) >= 0
                           /\ InsideHull(grid_points[g]))
        /\ \A g \in 1..Len(grid_points) :
               Range(members[g]) \subseteq 1..Len(tri.simplices)
        /\ DOMAIN triangle_info = 1..Len(tri.simplices)
        /\ \A t \in 1..Len(tri.simplices) : \A k \in 1..3 :
               RDist2(triangle_info[t].cc, RPoint(tri.points[tri.simplices[t][k]]))
                   = triangle_info[t].r

\* one grid point lies exactly on a circumcircle, another strictly inside
\* one and outside another, a third inside a circle but outside the hull
C17_Witness ==
    /\ NeighborsFound
    /\ \E g \in 1..Len(grid_points) : \E t \in 1..Len(tri.simplices) :
           CircleDet(t, grid_points[g]) = 0 /\ t \in Range(members[g])
    /\ \E g \in 1..Len(grid_points) : \E t, u \in 1..Len(tri.simplices) :
           /\ CircleDet(t, grid_points[g]) > 0 /\ t \in Range(members[g])
           /\ CircleDet(u, grid_points[g]) < 0 /\ u \notin Range(members[g])
    /\ \E g \in 1..Len(grid_points) : \E t \in 1..Len(tri.simplices) :
           CircleDet(t, grid_points[g]) > 0 /\ ~InsideHull(grid_points[g])

(* ================ properties: inverse_distance weights ================== *)
\* C18: for kind 'cressman' every grid point with at least min_neighbors
\* candidates (min_neighbors >= 0) has non-negative candidate weights with
\* a strictly positive sum, so that its value is a finite number, also
\* when all its candidates lie exactly at distance r.
C18_CressmanWeights ==
    \A cell \in GridCells :
        (/\ kind = "cressman"
         /\ r > 0
         /\ Evaluated(cell)
         /\ Cardinality(Candidates(cell)) >= min_neighbors)
        => /\ \A i \in Candidates(cell) : RLeq(RInt(0), CressmanW(cell, i))
           /\ RLess(RInt(0), CressmanTotal(cell))
           /\ FlatIndex(cell) \in written
           /\ IsFinite(img[FlatIndex(cell)])

\* C19: with a kind other than 'cressman' and 'barnes' inverse_distance
\* raises nothing and assigns no cell: every cell of the returned array is
\* NaN, also the cells with at least min_neighbors observations within r.
C19_UnknownKind ==
    (call = "inverse_distance" /\ kind \notin {"cressman", "barnes"}) =>
        /\ pc # "raised"
        /\ err = "none"
        /\ written = {}
        /\ \A g \in 1..Len(img) : IsNaN(img[g])
        /\ pc = "returned" =>
               /\ Len(result.data) = GridRows * GridCols
               /\ \A g \in 1..Len(result.data) : IsNaN(result.data[g])

\* a call with an unknown kind has returned, and one of its cells has
\* at least min_neighbors >= 1 observations within r
C19_Witness ==
    /\ call = "inverse_distance"
    /\ kind \notin {"cressman", "barnes"}
    /\ pc = "returned"
    /\ min_neighbors >= 1
    /\ \E cell \in GridCells : Cardinality(Candidates(cell)) >= min_neighbors

====
